---------------------------- MODULE Spec2Model ----------------------------
(***************************************************************************)
(* pynalyser: the scope/block tracking traversal engine (NodeVisitor in    *)
(* acr/utils.py) and the redefinition analysis built on it                 *)
(* (RedefinitionAnalyserBase in analysers/redefinitions.py).               *)
(*                                                                         *)
(* The recursion of visit / generic_visit is modelled by an explicit call  *)
(* stack of activation records; one action per step of a visit call.      *)
(***************************************************************************)
EXTENDS Integers, Sequences, FiniteSets, TLC

VARIABLES
    t,          \* index of the tree being traversed (input)
    strict,     \* NodeVisitor.strict
    handlers,   \* kinds K for which the analysis declares a visit_K method
    raiser,     \* the node whose handler raises (Unset: no handler raises)
    redef,      \* TRUE when the engine is the redefinition analysis
    scope,      \* NodeVisitor.scope
    block,      \* NodeVisitor.block
    stack,      \* activation records of the visit calls in progress
    err,        \* the exception in flight
    phase,      \* where the caller of start is
    starts,     \* number of start calls made on this instance
    symtab,     \* the symbol table of every Scope of the tree
    log         \* history of the current traversal

vars == <<t, strict, handlers, raiser, redef, scope, block, stack, err,
          phase, starts, symtab, log>>

\* How many times start is called on the same engine instance.
MaxStarts == 2

\* scope and block are only annotated on the class: no value before start
\* assigns them and after start deletes them.
Unset == 0

\* do_nothing returns None.
None == <<>>

NoErr == [type |-> "", arg |-> ""]

---------------------------------------------------------------------------
(* Tree model: binding-target expressions, nodes, flow containers.         *)

Nm(id) == [t |-> "Name", id |-> id, elts |-> <<>>]
Tup(elts) == [t |-> "Tuple", id |-> "", elts |-> elts]
Attr(value) == [t |-> "Attribute", id |-> "", elts |-> <<value>>]
NoExpr == [t |-> "None", id |-> "", elts |-> <<>>]

\* A FlowContainer item: a CodeBlock (a list of statements) or a single node.
CB(ids) == [cb |-> TRUE, ids |-> ids]
It(n) == [cb |-> FALSE, ids |-> <<n>>]

Alias(name, asname) == [name |-> name, asname |-> asname]

Nd(kind) ==
    [kind |-> kind, name |-> "", target |-> NoExpr, targets |-> <<>>,
     names |-> <<>>, fields |-> <<>>, kids |-> <<>>, scopes |-> <<>>]

ScopeN(kind, name, fields, scopes) ==
    [Nd(kind) EXCEPT !.name = name, !.fields = fields, !.scopes = scopes]
BlockN(kind, target, fields) ==
    [Nd(kind) EXCEPT !.target = target, !.fields = fields]
AssignN(targets, kids) ==
    [Nd("Assign") EXCEPT !.targets = targets, !.kids = kids]
TargetN(kind, target, kids) ==
    [Nd(kind) EXCEPT !.target = target, !.kids = kids]
ImportN(kind, aliases) == [Nd(kind) EXCEPT !.names = aliases]
Ref(name) == [Nd("ScopeReference") EXCEPT !.name = name]

\* m: (b, a) = 1; a = d = (b, a) = (c := 1); a += 1; import x as y, z
\*    del a; return
TreeAssign ==
    << ScopeN("Module", "m", << <<CB(<<2, 3, 5, 6, 7>>), It(8)>> >>, <<>>),
       AssignN(<<Tup(<<Nm("b"), Nm("a")>>)>>, <<>>),
       AssignN(<<Nm("a"), Nm("d"), Tup(<<Nm("b"), Nm("a")>>)>>, <<4>>),
       TargetN("NamedExpr", Nm("c"), <<>>),
       TargetN("AugAssign", Nm("a"), <<>>),
       ImportN("Import", <<Alias("x", "y"), Alias("z", "")>>),
       Nd("Delete"),
       Nd("Return") >>

\* m: def f(): a = 1; def g(): f = 1
\*             return
\*    f = 1
TreeDef ==
    << ScopeN("Module", "m", << <<CB(<<2, 3>>)>> >>, <<4>>),
       Ref("f"),
       AssignN(<<Nm("f")>>, <<>>),
       ScopeN("Function", "f", << <<CB(<<5, 6>>), It(7)>> >>, <<8>>),
       AssignN(<<Nm("a")>>, <<>>),
       Ref("g"),
       Nd("Return"),
       ScopeN("Function", "g", << <<CB(<<9>>)>> >>, <<>>),
       AssignN(<<Nm("f")>>, <<>>) >>

\* m: for i in r: i = i + 1; if c: break
\*    else: e
\*    i += 1
TreeFor ==
    << ScopeN("Module", "m", << <<It(2), CB(<<6>>)>> >>, <<>>),
       BlockN("For", Nm("i"), << <<CB(<<3>>), It(4)>>, <<CB(<<5>>)>> >>),
       AssignN(<<Nm("i")>>, <<>>),
       BlockN("If", NoExpr, << <<It(7)>>, <<>> >>),
       Nd("Expr"),
       TargetN("AugAssign", Nm("i"), <<>>),
       Nd("Break") >>

\* A Function held directly by a FlowContainer, inside an If, holding a While.
TreeNested ==
    << ScopeN("Module", "m", << <<It(2), CB(<<7>>)>> >>, <<>>),
       BlockN("If", NoExpr, << <<It(3)>>, <<CB(<<6>>)>> >>),
       ScopeN("Function", "g", << <<It(4)>> >>, <<>>),
       BlockN("While", NoExpr, << <<CB(<<5>>)>>, <<>> >>),
       AssignN(<<Nm("a")>>, <<>>),
       AssignN(<<Nm("b")>>, <<>>),
       AssignN(<<Nm("g")>>, <<>>) >>

\* A For whose body container holds an Expr statement outside any CodeBlock.
TreeBadItem ==
    << ScopeN("Module", "m", << <<It(2), It(8)>> >>, <<>>),
       BlockN("For", Nm("i"),
              << <<CB(<<3>>), It(4), CB(<<5>>)>>, <<CB(<<6>>), It(7)>> >>),
       AssignN(<<Nm("a")>>, <<>>),
       Nd("Expr"),
       AssignN(<<Nm("b")>>, <<>>),
       AssignN(<<Nm("c")>>, <<>>),
       Nd("Continue"),
       Nd("Return") >>

\* A module container holding a ScopeReference outside any CodeBlock.
TreeBadRef ==
    << ScopeN("Module", "m", << <<CB(<<2>>), It(3), It(4)>> >>, <<5>>),
       AssignN(<<Attr(Nm("a"))>>, <<>>),
       Ref("f"),
       Nd("Return"),
       ScopeN("Function", "f", << <<It(6)>> >>, <<>>),
       Nd("Return") >>

\* m: for i in r: a = lambda: ...
\*    <reference to a scope h the module does not hold>
TreeLambda ==
    << ScopeN("Module", "m", << <<It(2), CB(<<6>>)>> >>, <<5>>),
       BlockN("For", Tup(<<Nm("i"), Tup(<<Nm("j")>>)>>),
              << <<CB(<<3>>)>>, <<>> >>),
       AssignN(<<Nm("a")>>, <<4>>),
       Ref("lam"),
       ScopeN("Lambda", "lam", << <<It(7)>> >>, <<>>),
       Ref("h"),
       Nd("Return") >>

\* m: for i in r: i = i + 1
TreeLoop ==
    << ScopeN("Module", "m", << <<It(2)>> >>, <<>>),
       BlockN("For", Nm("i"), << <<CB(<<3>>)>>, <<>> >>),
       AssignN(<<Nm("i")>>, <<>>) >>

\* m: import x as y, z; from p import a as b, c, x as z; del a
TreeImport ==
    << ScopeN("Module", "m", << <<CB(<<2, 3, 4>>)>> >>, <<>>),
       ImportN("Import", <<Alias("x", "y"), Alias("z", "")>>),
       ImportN("ImportFrom",
               <<Alias("a", "b"), Alias("c", ""), Alias("x", "z")>>),
       TargetN("Delete", Nm("a"), <<>>) >>

Trees == <<TreeAssign, TreeDef, TreeFor, TreeNested, TreeBadItem,
           TreeBadRef, TreeLambda, TreeLoop, TreeImport>>

Root == 1
Tree == Trees[t]
Nodes == 1..Len(Tree)
Node(n) == Tree[n]
Kind(n) == Tree[n].kind

AllKinds == {"Module", "Function", "Lambda", "For", "If", "While", "Assign",
             "AugAssign", "NamedExpr", "Import", "ImportFrom", "Delete", "Expr",
             "Return",
             "Break", "Continue", "ScopeReference"}
SomeKinds == {"Module", "Function", "For", "Assign", "ScopeReference"}
HandlerSets == {{}, SomeKinds, AllKinds}


---------------------------------------------------------------------------
(* Class tests of the tree model (isinstance).                             *)

IsScope(k) == k \in {"Module", "Function", "Lambda"}
IsBlock(k) == IsScope(k) \/ k \in {"For", "If", "While"}
IsTerminal(k) == k \in {"Return", "Raise", "Assert", "Break", "Continue"}
\* A ScopeReference is a statement of a CodeBlock or a part of an expression:
\* it is walked like a primitive-tree node and carries only a name.
ScopeReferenceIsAST == TRUE
\* isinstance(node, ast.AST)
IsAST(k) == IF k = "ScopeReference" THEN ScopeReferenceIsAST ELSE ~IsBlock(k)

RECURSIVE ConcatAll(_)
ConcatAll(ss) == IF ss = <<>> THEN <<>> ELSE Head(ss) \o ConcatAll(Tail(ss))

\* NameCollector.collect_names: the bare names of a target, depth first,
\* left to right.
RECURSIVE collect_names(_)
collect_names(e) ==
    IF e.t = "Name" THEN <<e.id>>
    ELSE ConcatAll([i \in 1..Len(e.elts) |-> collect_names(e.elts[i])])

\* ScopeReference.get_scope: the nested scopes of `s` that bear the name.
ScopesNamed(s, name) ==
    {c \in 1..Len(Tree) :
        /\ \E i \in 1..Len(Node(s).scopes) : Node(s).scopes[i] = c
        /\ Node(c).name = name}
get_scope(n, s) == CHOOSE c \in ScopesNamed(s, Node(n).name) : TRUE

\* symtab[name].next_def() on one table.
Gen(tab, name) == IF name \in DOMAIN tab THEN tab[name] ELSE -1
next_def(tab, name) ==
    [x \in DOMAIN tab \cup {name} |->
        IF x = name THEN Gen(tab, name) + 1 ELSE tab[x]]

\* The table self.symtab designates: the table of the scope that is current.
CurrentTable == scope

---------------------------------------------------------------------------
(* RedefinitionAnalyserBase.visit: the names a node binds.                 *)

\* Variant: the targets of a delete statement are collected too.
NamesOfWithDelete(n) ==
    LET nd == Node(n) IN
    IF IsScope(nd.kind) THEN <<nd.name>>
    ELSE IF nd.kind \in {"For", "AugAssign", "NamedExpr", "Delete"}
        THEN collect_names(nd.target)
    ELSE IF nd.kind = "Assign"
        THEN ConcatAll([i \in 1..Len(nd.targets) |->
                            collect_names(nd.targets[i])])
    ELSE IF nd.kind \in {"Import", "ImportFrom"}
        THEN [i \in 1..Len(nd.names) |->
                IF nd.names[i].asname # "" THEN nd.names[i].asname
                ELSE nd.names[i].name]
    ELSE <<>>

\* Variant: an import always binds the original name.
NamesOfImportOriginal(n) ==
    LET nd == Node(n) IN
    IF IsScope(nd.kind) THEN <<nd.name>>
    ELSE IF nd.kind \in {"For", "AugAssign", "NamedExpr"}
        THEN collect_names(nd.target)
    ELSE IF nd.kind = "Assign"
        THEN ConcatAll([i \in 1..Len(nd.targets) |->
                            collect_names(nd.targets[i])])
    ELSE IF nd.kind \in {"Import", "ImportFrom"}
        THEN [i \in 1..Len(nd.names) |-> nd.names[i].name]
    ELSE <<>>

\* Variant: the target of a For loop is not collected.
NamesOfNoLoopTarget(n) ==
    LET nd == Node(n) IN
    IF IsScope(nd.kind) THEN <<nd.name>>
    ELSE IF nd.kind \in {"AugAssign", "NamedExpr"}
        THEN collect_names(nd.target)
    ELSE IF nd.kind = "Assign"
        THEN ConcatAll([i \in 1..Len(nd.targets) |->
                            collect_names(nd.targets[i])])
    ELSE IF nd.kind \in {"Import", "ImportFrom"}
        THEN [i \in 1..Len(nd.names) |->
                IF nd.names[i].asname # "" THEN nd.names[i].asname
                ELSE nd.names[i].name]
    ELSE <<>>

\* Variant: the targets of an assignment are walked last to first.
NamesOfReversedTargets(n) ==
    LET nd == Node(n) IN
    IF IsScope(nd.kind) THEN <<nd.name>>
    ELSE IF nd.kind \in {"For", "AugAssign", "NamedExpr"}
        THEN collect_names(nd.target)
    ELSE IF nd.kind = "Assign"
        THEN ConcatAll([i \in 1..Len(nd.targets) |->
                            collect_names(nd.targets[Len(nd.targets) + 1 - i])])
    ELSE IF nd.kind \in {"Import", "ImportFrom"}
        THEN [i \in 1..Len(nd.names) |->
                IF nd.names[i].asname # "" THEN nd.names[i].asname
                ELSE nd.names[i].name]
    ELSE <<>>

NamesOf(n) ==
    LET nd == Node(n) IN
    IF IsScope(nd.kind) THEN <<nd.name>>
    ELSE IF nd.kind \in {"For", "AugAssign", "NamedExpr"}
        THEN collect_names(nd.target)
    ELSE IF nd.kind = "Assign"
        THEN ConcatAll([i \in 1..Len(nd.targets) |->
                            collect_names(nd.targets[i])])
    ELSE IF nd.kind \in {"Import", "ImportFrom"}
        THEN [i \in 1..Len(nd.names) |->
                IF nd.names[i].asname # "" THEN nd.names[i].asname
                ELSE nd.names[i].name]
    ELSE <<>>

\* Variant: a name listed twice is advanced once (for name in set(names)).
RECURSIVE AdvanceAllOnce(_, _)
AdvanceAllOnce(tab, names) ==
    IF names = <<>> THEN tab
    ELSE LET rest == AdvanceAllOnce(tab, Tail(names)) IN
         IF \E i \in 1..Len(Tail(names)) : Tail(names)[i] = Head(names)
            THEN rest
            ELSE next_def(rest, Head(names))

\* for name in names: self.symtab[name].next_def()
RECURSIVE AdvanceAll(_, _)
AdvanceAll(tab, names) ==
    IF names = <<>> THEN tab
    ELSE AdvanceAll(next_def(tab, Head(names)), Tail(names))

---------------------------------------------------------------------------
(* NodeVisitor.visit and generic_visit, piecewise.                         *)

\* Variant: the context is switched before the handler is invoked.
NextPcSwitchFirst(pc) ==
    CASE pc = "call" -> IF redef THEN "override" ELSE "visit"
      [] pc = "override" -> "visit"
      [] pc = "visit" -> "switch"
      [] pc = "switch" -> "handler"
      [] pc = "handler" -> "generic"
      [] pc = "generic" -> "restore"

\* Variant: the names are advanced by the descent, after the context switch.
NextPcAdvanceInDescent(pc) ==
    CASE pc = "call" -> "visit"
      [] pc = "visit" -> "handler"
      [] pc = "handler" -> "switch"
      [] pc = "switch" -> IF redef THEN "override" ELSE "generic"
      [] pc = "override" -> "generic"
      [] pc = "generic" -> "restore"

\* The order of the steps of one visit call: the override of the
\* redefinition analysis, then the steps of NodeVisitor.visit.
NextPc(pc) ==
    CASE pc = "call" -> IF redef THEN "override" ELSE "visit"
      [] pc = "override" -> "visit"
      [] pc = "visit" -> "handler"
      [] pc = "handler" -> "switch"
      [] pc = "switch" -> "generic"
      [] pc = "generic" -> "restore"

\* Variant: a missing handler is an error in both modes.
VisitorAlwaysStrict(n) ==
    IF Kind(n) \in handlers THEN "visitor" ELSE "missing"

\* Variant: strict is never consulted.
VisitorLenient(n) ==
    IF Kind(n) \in handlers THEN "visitor" ELSE "do_nothing"

\* getattr(self, 'visit_' + kind, None), the strict test, do_nothing.
Visitor(n) ==
    IF Kind(n) \in handlers THEN "visitor"
    ELSE IF strict THEN "missing"
    ELSE "do_nothing"

\* Variant: a Scope is entered as if it were only a Block.
SwitchContextBlockOnly(n) ==
    IF IsBlock(Kind(n)) THEN [scope |-> scope, block |-> n]
    ELSE [scope |-> scope, block |-> block]

\* Variant: every Block is entered as if it were a Scope.
SwitchContextAsScope(n) ==
    IF IsBlock(Kind(n)) THEN [scope |-> n, block |-> n]
    ELSE [scope |-> scope, block |-> block]

\* The context a node's descent runs in.
SwitchContext(n) ==
    IF IsScope(Kind(n)) THEN [scope |-> n, block |-> n]
    ELSE IF IsBlock(Kind(n)) THEN [scope |-> scope, block |-> n]
    ELSE [scope |-> scope, block |-> block]

\* Variant: after a Scope only the block is put back.
RestoreContextBlockOnly(f) ==
    IF IsBlock(Kind(f.node))
        THEN [scope |-> scope, block |-> f.previous_block]
    ELSE [scope |-> scope, block |-> block]

\* The context after the descent of the node of frame f has returned.
RestoreContext(f) ==
    IF IsScope(Kind(f.node))
        THEN [scope |-> f.previous_scope, block |-> f.previous_block]
    ELSE IF IsBlock(Kind(f.node))
        THEN [scope |-> scope, block |-> f.previous_block]
    ELSE [scope |-> scope, block |-> block]

\* What the loops of generic_visit reach, in order; ok is FALSE for an item
\* of a FlowContainer that the isinstance ladder rejects.
\* Variant: the ladder ends in a plain else that visits the item.
ItemEntriesLax(item) ==
    [i \in 1..Len(item.ids) |-> [id |-> item.ids[i], ok |-> TRUE]]
ItemEntries(item) ==
    IF item.cb THEN [i \in 1..Len(item.ids) |-> [id |-> item.ids[i], ok |-> TRUE]]
    ELSE << [id |-> item.ids[1],
             ok |-> IsBlock(Kind(item.ids[1])) \/ IsTerminal(Kind(item.ids[1]))] >>
ContainerEntries(c) == ConcatAll([i \in 1..Len(c) |-> ItemEntries(c[i])])
\* Variant: the FlowContainer fields are walked last to first.
BlockEntriesReversed(n) ==
    ConcatAll([f \in 1..Len(Node(n).fields) |->
                  ContainerEntries(
                      Node(n).fields[Len(Node(n).fields) + 1 - f])])
BlockEntries(n) ==
    ConcatAll([f \in 1..Len(Node(n).fields) |->
                  ContainerEntries(Node(n).fields[f])])
\* ast.NodeVisitor.generic_visit: every child node, in field order.
ASTEntries(n) ==
    [i \in 1..Len(Node(n).kids) |-> [id |-> Node(n).kids[i], ok |-> TRUE]]
Entries(n) ==
    IF IsAST(Kind(n)) THEN ASTEntries(n)
    ELSE IF IsBlock(Kind(n)) THEN BlockEntries(n)
    ELSE <<>>

---------------------------------------------------------------------------
(* Activation records and the history.                                     *)

Top == stack[Len(stack)]
Depth == Len(stack)
Running == phase = "running" /\ err = NoErr /\ stack # <<>>
At(pc) == Running /\ Top.pc = pc

NewFrame(n, s, b) ==
    [node |-> n, pc |-> NextPc("call"),
     previous_scope |-> Unset, previous_block |-> Unset,
     ix |-> 1, refdone |-> FALSE, result |-> None,
     entry_scope |-> s, entry_block |-> b]

Ev(ev, n, d, s, b, arg, f) ==
    [ev |-> ev, node |-> n, depth |-> d, scope |-> s, block |-> b,
     arg |-> arg, es |-> f.entry_scope, eb |-> f.entry_block,
     result |-> f.result]

SetTop(f) == [stack EXCEPT ![Len(stack)] = f]

\* self.visit(c) called from the frame on top, which becomes f.
Call(f, c) ==
    LET g == NewFrame(c, scope, block) IN
    /\ stack' = Append(SetTop(f), g)
    /\ log' = Append(log, Ev("call", c, Depth + 1, scope, block, "", g))

Raise(type, arg) == err' = [type |-> type, arg |-> arg]

---------------------------------------------------------------------------
Init ==
    /\ t \in 1..Len(Trees)
    /\ strict \in BOOLEAN
    /\ handlers \in HandlerSets
    /\ raiser \in {Unset} \cup (1..Len(Trees[t]))
    /\ redef \in BOOLEAN
    /\ scope = Unset
    /\ block = Unset
    /\ stack = <<>>
    /\ err = NoErr
    /\ phase = "idle"
    /\ starts = 0
    /\ symtab = [s \in {n \in 1..Len(Trees[t]) : IsScope(Trees[t][n].kind)}
                    |-> <<>>]
    /\ log = <<>>

\* start, up to the call of visit.
Start ==
    /\ phase # "running"
    /\ starts < MaxStarts
    /\ starts' = starts + 1
    /\ phase' = "running"
    /\ scope' = Root
    /\ block' = Root
    /\ err' = NoErr
    /\ LET g == NewFrame(Root, Root, Root) IN
        /\ stack' = <<g>>
        /\ log' = <<Ev("call", Root, 1, Root, Root, "", g)>>
    /\ UNCHANGED <<t, strict, handlers, raiser, redef, symtab>>

\* start, after visit has returned: del self.scope, self.block.
StartReturn ==
    /\ phase = "running" /\ stack = <<>> /\ err = NoErr
    /\ scope' = Unset
    /\ block' = Unset
    /\ phase' = "returned"
    /\ UNCHANGED <<t, strict, handlers, raiser, redef, stack, err, starts,
                   symtab, log>>

\* start, when visit has raised: the error goes to the caller of start.
StartRaise ==
    /\ phase = "running" /\ stack = <<>> /\ err # NoErr
    /\ phase' = "raised"
    /\ UNCHANGED <<t, strict, handlers, raiser, redef, scope, block, stack,
                   err, starts, symtab, log>>

\* RedefinitionAnalyserBase.visit, up to super().visit(node).
AdvanceEvents(n, names) ==
    [i \in 1..Len(names) |-> Ev("advance", n, Depth, CurrentTable, block,
                                names[i], Top)]
Override ==
    /\ At("override")
    /\ LET n == Top.node
           names == NamesOf(n)
       IN
        /\ symtab' = [symtab EXCEPT ![CurrentTable] = AdvanceAll(@, names)]
        /\ log' = log \o AdvanceEvents(n, names)
        /\ stack' = SetTop([Top EXCEPT !.pc = NextPc("override")])
    /\ UNCHANGED <<t, strict, handlers, raiser, redef, scope, block, err,
                   phase, starts>>

\* visit: the handler is looked up.
Dispatch ==
    /\ At("visit")
    /\ IF Visitor(Top.node) = "missing"
        THEN /\ Raise("ValueError", Kind(Top.node))
             /\ UNCHANGED stack
        ELSE /\ stack' = SetTop([Top EXCEPT !.pc = NextPc("visit")])
             /\ UNCHANGED err
    /\ UNCHANGED <<t, strict, handlers, raiser, redef, scope, block, phase,
                   starts, symtab, log>>

\* visit: result = visitor(node).
Handler ==
    /\ At("handler")
    /\ LET n == Top.node
           v == Visitor(n)
       IN
        /\ log' = Append(log, Ev("handler", n, Depth, scope, block, v, Top))
        /\ IF v = "visitor" /\ raiser = n
            THEN /\ Raise("HandlerError", Kind(n))
                 /\ UNCHANGED stack
            ELSE /\ stack' = SetTop([Top EXCEPT
                        !.pc = NextPc("handler"),
                        !.result = IF v = "visitor" THEN <<n>> ELSE None])
                 /\ UNCHANGED err
    /\ UNCHANGED <<t, strict, handlers, raiser, redef, scope, block, phase,
                   starts, symtab>>

\* visit: previous_scope, previous_block are saved and the context is set.
Switch ==
    /\ At("switch")
    /\ LET n == Top.node
           c == SwitchContext(n)
       IN
        /\ scope' = c.scope
        /\ block' = c.block
        /\ stack' = SetTop([Top EXCEPT !.pc = NextPc("switch"),
                                       !.previous_scope = scope,
                                       !.previous_block = block])
        /\ log' = Append(log, Ev("descent", n, Depth, c.scope, c.block, "", Top))
    /\ UNCHANGED <<t, strict, handlers, raiser, redef, err, phase, starts,
                   symtab>>

\* Variant: the reference is resolved against the current block.
ReferenceContextBlock == block

\* The scope a ScopeReference is resolved against: self.scope.
ReferenceContext == scope

\* generic_visit: self.visit(node.get_scope(self.scope)).
ResolveReference ==
    /\ At("generic")
    /\ Kind(Top.node) = "ScopeReference"
    /\ ~Top.refdone
    /\ IF ScopesNamed(ReferenceContext, Node(Top.node).name) # {}
        THEN /\ Call([Top EXCEPT !.refdone = TRUE],
                     get_scope(Top.node, ReferenceContext))
             /\ UNCHANGED err
        ELSE /\ Raise("LookupError", Node(Top.node).name)
             /\ UNCHANGED <<stack, log>>
    /\ UNCHANGED <<t, strict, handlers, raiser, redef, scope, block, phase,
                   starts, symtab>>

InLoop ==
    /\ At("generic")
    /\ Kind(Top.node) = "ScopeReference" => Top.refdone

\* generic_visit: the next child is visited.
VisitChild ==
    /\ InLoop
    /\ Top.ix <= Len(Entries(Top.node))
    /\ Entries(Top.node)[Top.ix].ok
    /\ Call([Top EXCEPT !.ix = @ + 1], Entries(Top.node)[Top.ix].id)
    /\ UNCHANGED <<t, strict, handlers, raiser, redef, scope, block, err,
                   phase, starts, symtab>>

\* generic_visit: an item the isinstance ladder rejects.
BadItem ==
    /\ InLoop
    /\ Top.ix <= Len(Entries(Top.node))
    /\ ~Entries(Top.node)[Top.ix].ok
    /\ Raise("RuntimeError", Kind(Entries(Top.node)[Top.ix].id))
    /\ UNCHANGED <<t, strict, handlers, raiser, redef, scope, block, stack,
                   phase, starts, symtab, log>>

\* generic_visit returns (or its assert fails).
DescentDone ==
    /\ InLoop
    /\ Top.ix > Len(Entries(Top.node))
    /\ IF ~IsAST(Kind(Top.node)) /\ ~IsBlock(Kind(Top.node))
        THEN /\ Raise("AssertionError", Kind(Top.node))
             /\ UNCHANGED stack
        ELSE /\ stack' = SetTop([Top EXCEPT !.pc = NextPc("generic")])
             /\ UNCHANGED err
    /\ UNCHANGED <<t, strict, handlers, raiser, redef, scope, block, phase,
                   starts, symtab, log>>

\* Variant: visit returns what the descent returned.
ReturnValueOfDescent(f) == None

\* return result
ReturnValue(f) == f.result

\* visit: the context is put back and result is returned.
Return ==
    /\ At("restore")
    /\ LET c == RestoreContext(Top) IN
        /\ scope' = c.scope
        /\ block' = c.block
        /\ log' = Append(log, [Ev("return", Top.node, Depth, c.scope, c.block,
                                  "", Top) EXCEPT !.result = ReturnValue(Top)])
    /\ stack' = SubSeq(stack, 1, Len(stack) - 1)
    /\ UNCHANGED <<t, strict, handlers, raiser, redef, err, phase, starts,
                   symtab>>

\* An exception leaves the visit call on top: no handler, no finally.
Unwind ==
    /\ phase = "running" /\ err # NoErr /\ stack # <<>>
    /\ log' = Append(log, Ev("raise", Top.node, Depth, scope, block, Top.pc,
                             Top))
    /\ stack' = SubSeq(stack, 1, Len(stack) - 1)
    /\ UNCHANGED <<t, strict, handlers, raiser, redef, scope, block, err,
                   phase, starts, symtab>>

Next ==
    \/ Start
    \/ StartReturn
    \/ StartRaise
    \/ Override
    \/ Dispatch
    \/ Handler
    \/ Switch
    \/ ResolveReference
    \/ VisitChild
    \/ BadItem
    \/ DescentDone
    \/ Return
    \/ Unwind

Spec == Init /\ [][Next]_vars

---------------------------------------------------------------------------
(* Reading the history and the stack.                                      *)

\* The frame has set the context for its descent and not yet put it back.
Switched(f) == IsBlock(Kind(f.node)) /\ f.pc \in {"generic", "restore"}

\* Frame k is the innermost one that has set the context.
Innermost(k) ==
    /\ Switched(stack[k])
    /\ \A j \in (k + 1)..Len(stack) : ~Switched(stack[j])

\* The history index at which the visit call logged at k ends (returns or
\* raises); past the end of the history when it is still in progress.
EndOf(k) ==
    LET ends == {j \in (k + 1)..Len(log) :
                    /\ log[j].depth = log[k].depth
                    /\ log[j].ev \in {"return", "raise"}}
    IN IF ends = {} THEN Len(log) + 1
       ELSE CHOOSE j \in ends : \A i \in ends : j <= i

\* The history indexes of the visit calls made directly by the call at k.
ChildCallsAt(k) ==
    {j \in (k + 1)..(EndOf(k) - 1) :
        log[j].ev = "call" /\ log[j].depth = log[k].depth + 1}

\* The nodes visited directly by the call at k, in order.
RECURSIVE NodesAt(_, _)
NodesAt(k, js) ==
    IF js = {} THEN <<>>
    ELSE LET j == CHOOSE x \in js : \A y \in js : x <= y
         IN <<log[j].node>> \o NodesAt(k, js \ {j})
ChildCalls(k) == NodesAt(k, ChildCallsAt(k))

Ids(entries) == [i \in 1..Len(entries) |-> entries[i].id]
IsPrefix(p, s) == Len(p) <= Len(s) /\ p = SubSeq(s, 1, Len(p))

CallIndexes == {k \in 1..Len(log) : log[k].ev = "call"}

---------------------------------------------------------------------------
(* C1: once start has returned to its caller, normally or by an error,     *)
(* neither scope nor block still holds a node.                             *)
C1_StartLeavesNoContext ==
    phase \in {"returned", "raised"} => scope = Unset /\ block = Unset

(* C2: when the descent of a Scope or Block fails, the context at the      *)
(* moment the error leaves that visit call is the context the call was     *)
(* entered with.                                                           *)
C2_FailedDescentRestoresContext ==
    \A i \in 1..Len(log) :
        (/\ log[i].ev = "raise"
         /\ log[i].arg = "generic"
         /\ IsBlock(Kind(log[i].node)))
        => log[i].scope = log[i].es /\ log[i].block = log[i].eb

\* Descent half of C3: while a Scope is the innermost entered node, both
\* attributes are that node.
ScopeContextInDescent ==
    Running =>
        \A k \in 1..Len(stack) :
            Innermost(k) /\ IsScope(Kind(stack[k].node))
            => scope = stack[k].node /\ block = stack[k].node

(* C3 as stated: for every Scope node, scope and block both equal the      *)
(* node while its handler is invoked and throughout its descent.           *)
C3_ScopeContextInHandlerAndDescent ==
    /\ ScopeContextInDescent
    /\ (At("handler") /\ IsScope(Kind(Top.node)))
        => scope = Top.node /\ block = Top.node

(* C3 amended: for every Scope node, scope and block both equal the node   *)
(* throughout its descent; its handler is invoked with the values from     *)
(* before the node was entered, which are the node itself only for the     *)
(* root module under start.                                                *)
C3_ScopeContextInDescentOnly ==
    /\ ScopeContextInDescent
    /\ (At("handler") /\ IsScope(Kind(Top.node)))
        => /\ scope = Top.entry_scope /\ block = Top.entry_block
           /\ (scope = Top.node /\ block = Top.node) <=> Depth = 1

C3_Witness ==
    /\ At("generic")
    /\ IsScope(Kind(Top.node))
    /\ Depth > 1
    /\ Top.ix > 1
    /\ scope = Top.node /\ block = Top.node
    /\ Top.entry_scope # Top.node

(* C4: while the elements directly held by a non-Scope Block B are         *)
(* visited, block is B and scope is what it was before B was entered;     *)
(* after visit(B) returns normally block is what it was before.            *)
C4_BlockContext ==
    /\ Running =>
        \A k \in 1..Len(stack) :
            Innermost(k) /\ ~IsScope(Kind(stack[k].node))
            => block = stack[k].node /\ scope = stack[k].entry_scope
    /\ \A i \in 1..Len(log) :
        (/\ log[i].ev = "return"
         /\ IsBlock(Kind(log[i].node))
         /\ ~IsScope(Kind(log[i].node)))
        => log[i].block = log[i].eb

C4_Witness ==
    /\ At("handler")
    /\ Depth > 2
    /\ Innermost(Depth - 1)
    /\ ~IsScope(Kind(stack[Depth - 1].node))
    /\ block = stack[Depth - 1].node
    /\ scope = Root
    /\ \E i \in 1..Len(log) : log[i].ev = "return" /\ Kind(log[i].node) = "If"

\* For each element a Block's containers hold, in order (the statements of
\* a CodeBlock one by one): whether it is an element outside the closed set
\* CodeBlock, Block, Return, Raise, Assert, Break, Continue.
OutsideItem(item) ==
    IF item.cb THEN [j \in 1..Len(item.ids) |-> FALSE]
    ELSE << ~(\/ IsBlock(Kind(item.ids[1]))
              \/ Kind(item.ids[1]) \in {"Return", "Raise", "Assert", "Break",
                                        "Continue"}) >>
Outside(n) ==
    IF IsBlock(Kind(n))
    THEN ConcatAll([f \in 1..Len(Node(n).fields) |->
            ConcatAll([i \in 1..Len(Node(n).fields[f]) |->
                          OutsideItem(Node(n).fields[f][i])])])
    ELSE <<>>

\* The position of the first such element (past the end when there is none).
FirstBad(n) ==
    LET bad == {i \in 1..Len(Outside(n)) : Outside(n)[i]}
    IN IF bad = {} THEN Len(Entries(n)) + 1
       ELSE CHOOSE i \in bad : \A j \in bad : i <= j
HasBad(n) == FirstBad(n) <= Len(Entries(n))

\* The RuntimeError has just been raised by the frame on top.
JustRejected ==
    /\ phase = "running" /\ stack # <<>>
    /\ err.type = "RuntimeError"
    /\ log[Len(log)].ev # "raise"

(* C5: a Block whose FlowContainer holds an element outside the closed set *)
(* fails with the structural error when the descent reaches the element:   *)
(* the descent never steps past it, the visit of the Block never returns   *)
(* normally, every element before it has been visited in order and none    *)
(* after it is.                                                            *)
C5_BadItemFails ==
    /\ \A k \in 1..Len(stack) : stack[k].ix <= FirstBad(stack[k].node)
    /\ \A k \in CallIndexes :
        HasBad(log[k].node) =>
            /\ IsPrefix(ChildCalls(k),
                        SubSeq(Ids(Entries(log[k].node)), 1,
                               FirstBad(log[k].node) - 1))
            /\ EndOf(k) <= Len(log) => log[EndOf(k)].ev = "raise"
    /\ JustRejected =>
        /\ Top.pc = "generic"
        /\ Top.ix = FirstBad(Top.node)
        /\ HasBad(Top.node)
        /\ err.arg = Kind(Entries(Top.node)[Top.ix].id)
        /\ \E k \in CallIndexes :
            /\ log[k].node = Top.node
            /\ log[k].depth = Depth
            /\ EndOf(k) = Len(log) + 1
            /\ ChildCalls(k) = SubSeq(Ids(Entries(Top.node)), 1, Top.ix - 1)
    /\ (err.type = "RuntimeError" /\ ~JustRejected)
        => log[Len(log)].ev = "raise"

C5_Witness ==
    /\ JustRejected
    /\ Kind(Top.node) = "For"
    /\ Top.ix = 2
    /\ \E k \in CallIndexes : log[k].node = Top.node /\ ChildCalls(k) = <<3>>

\* The events of the visit call logged at k, its own and its descendants'.
EventsOf(k) == (k + 1)..(EndOf(k) - 1)
Ended(k) == EndOf(k) <= Len(log)

\* The exception in flight has just been raised by the frame on top.
JustRaised(type) ==
    /\ phase = "running" /\ stack # <<>>
    /\ err.type = type
    /\ log[Len(log)].ev # "raise"

(* C6: in strict mode a visit of a node whose kind has no handler fails    *)
(* with the error naming the kind before anything else happens: no         *)
(* handler is invoked, no descendant is visited, and scope and block are   *)
(* as the call found them.                                                 *)
C6_StrictMissingHandler ==
    /\ \A k \in 1..Len(stack) :
        (strict /\ Kind(stack[k].node) \notin handlers)
        => stack[k].pc \in {"override", "visit"}
    /\ \A k \in CallIndexes :
        (strict /\ Kind(log[k].node) \notin handlers) =>
            /\ \A j \in EventsOf(k) :
                log[j].ev = "advance" /\ log[j].depth = log[k].depth
            /\ Ended(k) =>
                /\ log[EndOf(k)].ev = "raise"
                /\ log[EndOf(k)].arg = "visit"
                /\ log[EndOf(k)].scope = log[k].scope
                /\ log[EndOf(k)].block = log[k].block
    /\ JustRaised("ValueError") =>
        /\ strict
        /\ Top.pc = "visit"
        /\ err.arg = Kind(Top.node)
        /\ err.arg \notin handlers
        /\ scope = Top.entry_scope /\ block = Top.entry_block

C6_Witness ==
    /\ JustRaised("ValueError")
    /\ Depth > 2
    /\ Kind(Top.node) = "If"
    /\ block = stack[Depth - 1].node
    /\ block # scope

\* The visit call logged at k went through the whole dispatch for a Scope:
\* handler, context switch to the node, return.
FullScopeVisit(k) ==
    /\ \E j \in EventsOf(k) :
        /\ log[j].ev = "handler"
        /\ log[j].node = log[k].node /\ log[j].depth = log[k].depth
    /\ \E j \in EventsOf(k) :
        /\ log[j].ev = "descent"
        /\ log[j].node = log[k].node /\ log[j].depth = log[k].depth
        /\ log[j].scope = log[k].node /\ log[j].block = log[k].node
    /\ Ended(k) /\ log[EndOf(k)].ev = "return"

(* C7: visiting a ScopeReference whose name resolves to a nested Scope of  *)
(* the current scope visits that Scope exactly once, through the full      *)
(* dispatch, and then the visit of the reference completes normally with   *)
(* scope and block as they were before the reference was visited.          *)
C7_ReferenceVisitsScopeOnce ==
    \A k \in CallIndexes :
        (/\ Kind(log[k].node) = "ScopeReference"
         /\ ScopesNamed(log[k].scope, Node(log[k].node).name) # {})
        => LET target == get_scope(log[k].node, log[k].scope) IN
            /\ IsPrefix(ChildCalls(k), <<target>>)
            /\ (Ended(k) /\ log[EndOf(k)].ev = "return") =>
                /\ ChildCalls(k) = <<target>>
                /\ \A c \in ChildCallsAt(k) : FullScopeVisit(c)
                /\ log[EndOf(k)].scope = log[k].scope
                /\ log[EndOf(k)].block = log[k].block
            /\ (Ended(k) /\ log[EndOf(k)].ev = "raise"
                         /\ log[EndOf(k)].arg = "generic") =>
                /\ log[EndOf(k) - 1].ev = "raise"
                /\ log[EndOf(k) - 1].depth = log[k].depth + 1
            /\ \A c \in ChildCallsAt(k) :
                (Ended(c) /\ log[EndOf(c)].ev = "return" /\ EndOf(c) < Len(log))
                => log[EndOf(c) + 1].ev = "return"

C7_Witness ==
    /\ t = 7
    /\ \E k \in CallIndexes :
        /\ log[k].node = 4
        /\ log[k].block = 2 /\ log[k].scope = 1
        /\ Ended(k) /\ log[EndOf(k)].ev = "return"
        /\ ChildCalls(k) = <<5>>
        /\ log[EndOf(k)].block = 2 /\ log[EndOf(k)].scope = 1

\* The visit call logged at k has left the override of the analysis behind.
PastOverride(k) ==
    \/ Ended(k)
    \/ /\ phase = "running"
       /\ log[k].depth <= Len(stack)
       /\ stack[log[k].depth].pc # "override"

\* The history holds, right after the call at k, one advance per name of
\* names, in order, made for the node of that call.
AdvancesFollow(k, names) ==
    /\ Len(log) >= k + Len(names)
    /\ \A i \in 1..Len(names) :
        /\ log[k + i].ev = "advance"
        /\ log[k + i].node = log[k].node
        /\ log[k + i].depth = log[k].depth
        /\ log[k + i].arg = names[i]

(* C8: in the redefinition analysis the names collected for a node are     *)
(* all advanced, in their listed order, before the node's handler is       *)
(* invoked and before any node of its subtree is visited; so the advances  *)
(* of an ancestor precede those of its descendants.                        *)
C8_AdvanceBeforeDispatch ==
    redef =>
        \A k \in CallIndexes :
            /\ PastOverride(k) => AdvancesFollow(k, NamesOf(log[k].node))
            /\ \A j \in EventsOf(k) :
                /\ log[j].ev \in {"handler", "call", "descent"}
                    => /\ j > k + Len(NamesOf(log[k].node))
                       /\ AdvancesFollow(k, NamesOf(log[k].node))
                /\ (log[j].ev = "advance" /\ log[j].depth = log[k].depth)
                    => j <= k + Len(NamesOf(log[k].node))
                /\ (log[j].ev = "advance" /\ log[j].depth > log[k].depth)
                    => j > k + Len(NamesOf(log[k].node))

C8_Witness ==
    /\ t = 1
    /\ redef
    /\ \E k \in CallIndexes :
        /\ log[k].node = 3
        /\ AdvancesFollow(k, <<"a", "d", "b", "a">>)
        /\ Len(log) >= k + 7
        /\ log[k + 5].ev = "handler" /\ log[k + 5].node = 3
        /\ log[k + 7].ev = "call" /\ log[k + 7].node = 4

\* The step taken is the override of the analysis for the node on top.
OverrideStep == At("override") /\ stack' # stack

(* C9: when the redefinition analysis visits a nested Scope named f, the   *)
(* advance of f goes to the table of the enclosing scope, by exactly one   *)
(* generation, and the nested scope's own table gets no advance.           *)
C9_NestedScopeAdvancesEnclosing ==
    [][(OverrideStep /\ IsScope(Kind(Top.node)) /\ Depth > 1) =>
        LET n == Top.node
            f == Node(n).name
            enc == Top.entry_scope
        IN /\ enc # n
           /\ IsScope(Kind(enc))
           /\ Gen(symtab'[enc], f) = Gen(symtab[enc], f) + 1
           /\ \A x \in (DOMAIN symtab[enc] \cup DOMAIN symtab'[enc]) \ {f} :
                Gen(symtab'[enc], x) = Gen(symtab[enc], x)
           /\ \A s \in DOMAIN symtab : s # enc => symtab'[s] = symtab[s]
           /\ symtab'[n] = symtab[n]
      ]_vars

C9_Witness ==
    /\ t = 2
    /\ redef
    /\ Running
    /\ Top.node = 8 /\ Top.pc = "visit"
    /\ starts = 1
    /\ Gen(symtab[1], "f") = 0 /\ Gen(symtab[1], "g") = -1
    /\ Gen(symtab[4], "g") = 0 /\ Gen(symtab[4], "f") = -1
    /\ Gen(symtab[8], "g") = -1

\* How many times a name occurs in a list of names.
RECURSIVE Count(_, _)
Count(x, names) ==
    IF names = <<>> THEN 0
    ELSE (IF Head(names) = x THEN 1 ELSE 0) + Count(x, Tail(names))

\* The bare names of the targets of an assignment, first target first.
TargetNames(n) ==
    ConcatAll([i \in 1..Len(Node(n).targets) |->
                  collect_names(Node(n).targets[i])])

(* C10: for an assignment with several targets the redefinition analysis   *)
(* advances the names of the targets in left-to-right target order, each   *)
(* name by one generation per occurrence, whatever generation it had,      *)
(* the first advance of a name without entry creating generation 0.        *)
C10_ChainedAssignment ==
    [][(OverrideStep /\ Kind(Top.node) = "Assign"
                     /\ Len(Node(Top.node).targets) > 1) =>
        LET names == TargetNames(Top.node)
            tab == symtab[scope]
        IN /\ Len(log') = Len(log) + Len(names)
           /\ \A i \in 1..Len(names) :
                /\ log'[Len(log) + i].ev = "advance"
                /\ log'[Len(log) + i].arg = names[i]
           /\ \A x \in DOMAIN symtab'[scope] :
                Gen(symtab'[scope], x) = Gen(tab, x) + Count(x, names)
           /\ DOMAIN symtab'[scope] =
                DOMAIN tab \cup {names[i] : i \in 1..Len(names)}
      ]_vars

C10_Witness ==
    /\ t = 1
    /\ redef
    /\ starts = 2
    /\ Running
    /\ Top.node = 3 /\ Top.pc = "visit"
    /\ Gen(symtab[1], "a") = 6
    /\ Gen(symtab[1], "b") = 3
    /\ Gen(symtab[1], "d") = 1

\* The history indexes of the advances of name x.
AdvancesOf(x) ==
    {j \in 1..Len(log) : log[j].ev = "advance" /\ log[j].arg = x}

(* C11: for a module whose body is a For with target i holding the         *)
(* assignment i = i + 1, one full traversal by the redefinition analysis   *)
(* advances i exactly twice in the module's table: for the For node, then  *)
(* for the assignment, and at no other step.                               *)
C11_LoopTargetThenAssignment ==
    (Tree = TreeLoop /\ redef) =>
        /\ IsPrefix(NodesAt(0, AdvancesOf("i")), <<2, 3>>)
        /\ \A j \in AdvancesOf("i") : log[j].scope = Root
        /\ phase = "returned" =>
            /\ NodesAt(0, AdvancesOf("i")) = <<2, 3>>
            /\ Gen(symtab[Root], "i") = 2 * starts - 1

C11_Witness ==
    /\ Tree = TreeLoop
    /\ redef
    /\ phase = "returned"
    /\ starts = 1
    /\ NodesAt(0, AdvancesOf("i")) = <<2, 3>>
    /\ Gen(symtab[Root], "i") = 1

\* The name an imported alias binds locally.
LocalName(alias) == IF alias.asname = "" THEN alias.name ELSE alias.asname

(* C12: for an import or import-from node the redefinition analysis        *)
(* advances exactly one name per imported alias, in declaration order:     *)
(* the local alias when the import renames the symbol, and then not the    *)
(* original name, otherwise the original name.                             *)
C12_ImportAdvancesLocalNames ==
    [][(OverrideStep /\ Kind(Top.node) \in {"Import", "ImportFrom"}) =>
        LET aliases == Node(Top.node).names
            local == [i \in 1..Len(aliases) |-> LocalName(aliases[i])]
        IN /\ Len(log') = Len(log) + Len(aliases)
           /\ \A i \in 1..Len(aliases) :
                /\ log'[Len(log) + i].ev = "advance"
                /\ log'[Len(log) + i].node = Top.node
                /\ log'[Len(log) + i].arg = local[i]
           /\ \A s \in DOMAIN symtab :
                \A x \in DOMAIN symtab[s] \cup DOMAIN symtab'[s] :
                    Gen(symtab'[s], x) = Gen(symtab[s], x)
                        + (IF s = scope THEN Count(x, local) ELSE 0)
      ]_vars

C12_Witness ==
    /\ Tree = TreeImport
    /\ redef
    /\ Running
    /\ Top.node = 3 /\ Top.pc = "visit"
    /\ starts = 1
    /\ Gen(symtab[Root], "y") = 0
    /\ Gen(symtab[Root], "z") = 1
    /\ Gen(symtab[Root], "b") = 0
    /\ Gen(symtab[Root], "c") = 0
    /\ Gen(symtab[Root], "x") = -1
    /\ Gen(symtab[Root], "a") = -1

\* The binding events of name x in the table of scope s that the history
\* holds at the indexes js.
BindingEvents(l, js, s, x) ==
    {j \in js : l[j].ev = "advance" /\ l[j].scope = s /\ l[j].arg = x}

\* The names the history binds in the table of scope s.
BoundNames(s) ==
    {log[j].arg : j \in {i \in 1..Len(log) :
                            log[i].ev = "advance" /\ log[i].scope = s}}

\* The history indexes a step adds (none when start begins a new history).
Added ==
    IF Len(log') >= Len(log) /\ SubSeq(log', 1, Len(log)) = log
    THEN (Len(log) + 1)..Len(log')
    ELSE {}

(* C13: a name has no entry in a table until its first binding event in    *)
(* that table; after k >= 1 binding events its generation is k - 1; no     *)
(* step decreases a generation or removes an entry.                        *)
C13_GenerationCountsBindings ==
    /\ [](starts <= 1 =>
            \A s \in DOMAIN symtab :
                \A x \in DOMAIN symtab[s] \cup BoundNames(s) :
                    LET k == Cardinality(BindingEvents(log, 1..Len(log), s, x))
                    IN /\ k >= 1
                       /\ x \in DOMAIN symtab[s]
                       /\ symtab[s][x] = k - 1)
    /\ [][\A s \in DOMAIN symtab :
            /\ DOMAIN symtab[s] \subseteq DOMAIN symtab'[s]
            /\ \A x \in DOMAIN symtab'[s] :
                /\ Gen(symtab'[s], x) >= Gen(symtab[s], x)
                /\ Gen(symtab'[s], x) = Gen(symtab[s], x)
                      + Cardinality(BindingEvents(log', Added, s, x))
         ]_vars

C13_Witness ==
    /\ Tree = TreeAssign
    /\ redef
    /\ starts = 2
    /\ phase = "returned"
    /\ DOMAIN symtab[Root] = {"m", "a", "b", "c", "d", "y", "z"}
    /\ symtab[Root]["a"] = 7
    /\ symtab[Root]["d"] = 1
    /\ Cardinality(BindingEvents(log, 1..Len(log), Root, "a")) = 4

\* The events of the visit call logged at k that are its own.
OwnEvents(k, ev) ==
    {j \in EventsOf(k) : log[j].ev = ev /\ log[j].depth = log[k].depth}

(* C14: the context switch is applied around the descent only: the handler *)
(* of a nested Scope or Block is invoked while scope and block still hold  *)
(* the enclosing context; the switch to the node happens after the         *)
(* handler returns and before the first descendant is visited.             *)
C14_SwitchAroundDescentOnly ==
    \A k \in CallIndexes :
        IsBlock(Kind(log[k].node)) =>
            LET n == log[k].node IN
            /\ \A h \in OwnEvents(k, "handler") :
                /\ log[h].scope = log[k].scope
                /\ log[h].block = log[k].block
                /\ log[k].depth > 1 => log[h].block # n /\ log[h].scope # n
            /\ \A s \in OwnEvents(k, "descent") :
                /\ \E h \in OwnEvents(k, "handler") : h < s
                /\ log[s].block = n
                /\ log[s].scope = IF IsScope(Kind(n)) THEN n ELSE log[k].scope
            /\ \A c \in ChildCallsAt(k) :
                /\ \E s \in OwnEvents(k, "descent") : s < c
                /\ log[c].block = n

C14_Witness ==
    /\ Tree = TreeNested
    /\ At("switch")
    /\ Top.node = 3
    /\ scope = 1 /\ block = 2
    /\ log[Len(log)].ev = "handler"
    /\ log[Len(log)].node = 3
    /\ log[Len(log)].arg = "visitor"
    /\ log[Len(log)].scope = 1 /\ log[Len(log)].block = 2

\* What a handler returns for node n is written <<n>>; do_nothing returns
\* None.
Returned(k) == Ended(k) /\ log[EndOf(k)].ev = "return"

(* C15: visit invokes the node's resolved handler (or the no-op) exactly   *)
(* once, before any descendant of the node is visited, and returns the     *)
(* value that handler returned (None when the no-op ran), whatever the     *)
(* descent returned.                                                       *)
C15_HandlerOnceAndItsResult ==
    \A k \in CallIndexes :
        LET n == log[k].node
            hs == OwnEvents(k, "handler")
        IN /\ Cardinality(hs) <= 1
           /\ \A h \in hs :
                /\ log[h].node = n
                /\ log[h].arg =
                     IF Kind(n) \in handlers THEN "visitor" ELSE "do_nothing"
           /\ \A c \in ChildCallsAt(k) : \E h \in hs : h < c
           /\ Returned(k) =>
                /\ Cardinality(hs) = 1
                /\ log[EndOf(k)].result =
                     IF Kind(n) \in handlers THEN <<n>> ELSE <<>>

C15_Witness ==
    /\ Tree = TreeAssign
    /\ \E k \in CallIndexes :
        /\ log[k].node = 3
        /\ Returned(k)
        /\ ChildCalls(k) = <<4>>
        /\ log[EndOf(k)].result = <<3>>
        /\ log[EndOf(k) - 1].ev = "return"
        /\ log[EndOf(k) - 1].result = <<>>

\* The elements of a Block in execution order: its FlowContainer fields in
\* declared order, the elements of each in sequence order, the statements
\* of a CodeBlock in sequence order.
ExecutionOrder(n) ==
    ConcatAll([f \in 1..Len(Node(n).fields) |->
        ConcatAll([i \in 1..Len(Node(n).fields[f]) |->
                      Node(n).fields[f][i].ids])])

(* C16: for a well-formed Block the descent visits every element exactly   *)
(* once in execution order, a nested Block completely before the next      *)
(* sibling; no element is visited twice or skipped.                        *)
C16_DescentInExecutionOrder ==
    \A k \in CallIndexes :
        (IsBlock(Kind(log[k].node)) /\ ~HasBad(log[k].node)) =>
            /\ IsPrefix(ChildCalls(k), ExecutionOrder(log[k].node))
            /\ Returned(k) => ChildCalls(k) = ExecutionOrder(log[k].node)
            /\ \A c1, c2 \in ChildCallsAt(k) :
                c1 < c2 => Returned(c1) /\ EndOf(c1) < c2

C16_Witness ==
    /\ Tree = TreeFor
    /\ \E k \in CallIndexes :
        /\ log[k].node = 2
        /\ Returned(k)
        /\ ChildCalls(k) = <<3, 4, 5>>
        /\ \E c \in ChildCallsAt(k) : log[c].node = 4 /\ ChildCalls(c) = <<7>>

\* The children the descent of node n visits when nothing fails, n being
\* reached in the context whose scope is s.
ChildrenOf(n, s) ==
    IF Kind(n) = "ScopeReference"
        THEN {<<c>> : c \in ScopesNamed(s, Node(n).name)}
    ELSE IF IsBlock(Kind(n)) THEN {ExecutionOrder(n)}
    ELSE {Node(n).kids}

(* C17: in lenient mode a visit of a node whose kind has no handler raises *)
(* no error and is silent: the no-op runs, the descent into the children   *)
(* runs with the same context switch as for a handled node, and the        *)
(* remaining siblings are visited.                                         *)
C17_LenientMissingHandler ==
    ~strict =>
        /\ err.type # "ValueError"
        /\ \A k \in CallIndexes :
            Kind(log[k].node) \notin handlers =>
                LET n == log[k].node IN
                /\ \A h \in OwnEvents(k, "handler") : log[h].arg = "do_nothing"
                /\ \A s \in OwnEvents(k, "descent") :
                    /\ log[s].block = IF IsBlock(Kind(n)) THEN n
                                      ELSE log[k].block
                    /\ log[s].scope = IF IsScope(Kind(n)) THEN n
                                      ELSE log[k].scope
                /\ \A c \in ChildCallsAt(k) :
                    /\ OwnEvents(k, "handler") # {}
                    /\ OwnEvents(k, "descent") # {}
                /\ (Ended(k) /\ ~Returned(k)) => log[EndOf(k)].arg = "generic"
                /\ Returned(k) =>
                    /\ ChildCalls(k) \in ChildrenOf(n, log[k].scope)
                    /\ log[EndOf(k)].result = None
                    /\ log[EndOf(k)].scope = log[k].scope
                    /\ log[EndOf(k)].block = log[k].block
                    /\ EndOf(k) < Len(log) =>
                        \/ log[EndOf(k) + 1].ev = "call"
                        \/ log[EndOf(k) + 1].ev = "return"
                        \/ /\ log[EndOf(k) + 1].ev = "raise"
                           /\ err.type = "RuntimeError"

C17_Witness ==
    /\ Tree = TreeFor
    /\ ~strict
    /\ handlers = {}
    /\ phase = "returned"
    /\ \E k \in CallIndexes :
        /\ log[k].node = 2
        /\ Returned(k)
        /\ ChildCalls(k) = <<3, 4, 5>>
        /\ \E s \in OwnEvents(k, "descent") :
            log[s].block = 2 /\ log[s].scope = 1
    /\ \E k \in CallIndexes : log[k].node = 6 /\ Returned(k)

\* The kinds for which the redefinition analysis collects names.
BindingKinds ==
    {"Module", "Function", "Lambda", "For", "AugAssign", "NamedExpr",
     "Assign", "Import", "ImportFrom"}

(* C18: when the redefinition analysis visits a node of any other kind     *)
(* (a delete statement, a Return, an If, ...), its own step before the     *)
(* base dispatch advances no name: every table is unchanged.               *)
C18_OtherKindsAdvanceNothing ==
    [][(OverrideStep /\ Kind(Top.node) \notin BindingKinds) =>
        /\ symtab' = symtab
        /\ log' = log
        /\ Top'.pc = "visit"
      ]_vars

C18_Witness ==
    /\ Tree = TreeImport
    /\ redef
    /\ Running
    /\ starts = 1
    /\ Top.node = 4 /\ Top.pc = "visit"
    /\ Node(Top.node).target = Nm("a")
    /\ Gen(symtab[Root], "a") = -1
    /\ Gen(symtab[Root], "b") = 0

(* C19: context balance: every visit call that returns normally, at any    *)
(* depth and for any kind of node, leaves scope and block equal to the     *)
(* values they had when the call was entered.                              *)
C19_ContextBalance ==
    \A k \in CallIndexes :
        Returned(k) =>
            /\ log[EndOf(k)].scope = log[k].scope
            /\ log[EndOf(k)].block = log[k].block
            /\ log[EndOf(k)].es = log[k].scope
            /\ log[EndOf(k)].eb = log[k].block

C19_Witness ==
    /\ Tree = TreeDef
    /\ \E k \in CallIndexes :
        /\ log[k].node = 4
        /\ log[k].depth = 3
        /\ Returned(k)
        /\ log[EndOf(k)].scope = 1 /\ log[EndOf(k)].block = 1
        /\ \E s \in OwnEvents(k, "descent") :
            log[s].scope = 4 /\ log[s].block = 4
        /\ ChildCalls(k) = <<5, 6, 7>>

\* The Blocks a visit of node n enters first, n being reached in scope s:
\* n itself when it is a Block, else what its reference or its children
\* lead to.
RECURSIVE FirstBlocks(_, _)
FirstBlocks(n, s) ==
    IF IsBlock(Kind(n)) THEN {n}
    ELSE (IF Kind(n) = "ScopeReference" THEN ScopesNamed(s, Node(n).name)
          ELSE {})
         \cup UNION {FirstBlocks(Node(n).kids[i], s) :
                        i \in 1..Len(Node(n).kids)}

\* The Blocks nested directly in Block b, the current scope there being s.
NestedBlocks(b, s) ==
    UNION {FirstBlocks(ExecutionOrder(b)[i], s) :
              i \in 1..Len(ExecutionOrder(b))}

\* The tree obeys the invariants of the tree model.
WellFormedTree ==
    \A n \in Nodes :
        /\ ~HasBad(n)
        /\ Kind(n) = "ScopeReference" =>
            \E s \in Nodes : ScopesNamed(s, Node(n).name) # {}

\* The chain of entered Blocks: the module start has entered, then the
\* nodes of the nested visit calls that have switched the context.
RECURSIVE EnteredFrom(_)
EnteredFrom(k) ==
    IF k > Len(stack) THEN <<>>
    ELSE (IF Switched(stack[k]) THEN <<stack[k].node>> ELSE <<>>)
         \o EnteredFrom(k + 1)
Entered == <<Root>> \o EnteredFrom(2)

\* The innermost Scope among the first i nodes of a chain.
RECURSIVE ScopeAt(_, _)
ScopeAt(chain, i) ==
    IF i = 0 THEN Unset
    ELSE IF IsScope(Kind(chain[i])) THEN chain[i]
    ELSE ScopeAt(chain, i - 1)

ContextIsPath ==
    LET chain == Entered IN
    /\ \A i \in 1..(Len(chain) - 1) :
        chain[i + 1] \in NestedBlocks(chain[i], ScopeAt(chain, i))
    /\ block = chain[Len(chain)]
    /\ scope = ScopeAt(chain, Len(chain))

(* C20: at every point of a traversal begun with start on a well-formed    *)
(* tree, the chain of entered Blocks is a path from the root module down   *)
(* to the current block, and the current scope is the innermost Scope      *)
(* enclosing the current block.                                            *)
C20_ContextIsPathFromRoot ==
    (phase = "running" /\ WellFormedTree) => ContextIsPath

\* The same while no exception is in flight.
ContextIsPathWhileNoError ==
    (phase = "running" /\ WellFormedTree /\ err = NoErr) => ContextIsPath

ContextIsPathWitness ==
    /\ Tree = TreeDef
    /\ Running
    /\ Entered = <<1, 4, 8>>
    /\ scope = 8 /\ block = 8

===========================================================================
